---- MODULE Spec2Model ----
(***************************************************************************)
(* A model of the ClassAction.org settlements scraper (scraper/scrape.py): *)
(* the field parsers, the slug and identifier derivation, the card locator *)
(* of scrape_settlements, and main with the store it upserts into.         *)
(*                                                                         *)
(* Text is a sequence of one-character strings, so that the regular        *)
(* expressions and string methods of the source are computed on the        *)
(* characters.  Python's None is the empty sequence and a value v is <<v>>.*)
(***************************************************************************)
EXTENDS Integers, Sequences, FiniteSets, TLC

VARIABLES
    phase,      \* position of the function or run under check
    text,       \* the text handed to a parser
    today,      \* date.today() as a day ordinal
    result,     \* what the function under check returned
    chain,      \* the ancestors of a title node, nearest first
    env,        \* os.environ: SUPABASE_URL and SUPABASE_SERVICE_KEY
    response,   \* what requests.get produced in this run
    doc,        \* the parsed document (soup)
    rows,       \* the rows scrape_settlements returned
    store,      \* the settlements table
    before,     \* the settlements table when the run started
    now,        \* datetime.utcnow() of the run
    fetches,    \* requests.get calls issued in this run
    clients,    \* create_client calls made in this run
    upserts,    \* upsert calls executed in this run
    existing,   \* the store's records read by the append-only policy
    to_insert   \* the insert batch of the append-only policy

vars == <<phase, text, today, result, chain, env, response, doc, rows, store,
          before, now, fetches, clients, upserts, existing, to_insert>>

None == <<>>
Some(v) == <<v>>

\* body(e): e is computed once, however often the body reads it
With(e, body(_)) == body(e)

----------------------------------------------------------------------------
(* Characters and the str methods the source uses.                         *)

DigitChars == <<"0","1","2","3","4","5","6","7","8","9">>
UpperChars == <<"A","B","C","D","E","F","G","H","I","J","K","L","M","N","O","P","Q","R","S","T","U","V","W","X","Y","Z">>
LowerChars == <<"a","b","c","d","e","f","g","h","i","j","k","l","m","n","o","p","q","r","s","t","u","v","w","x","y","z">>

IsDigit(c) == \E i \in DOMAIN DigitChars : DigitChars[i] = c
DigitVal(c) == (CHOOSE i \in DOMAIN DigitChars : DigitChars[i] = c) - 1
IsUpper(c) == \E i \in DOMAIN UpperChars : UpperChars[i] = c
IsLower(c) == \E i \in DOMAIN LowerChars : LowerChars[i] = c
IsSpace(c) == c \in {" ", "\t", "\n"}
IsAlnum(c) == IsDigit(c) \/ IsUpper(c) \/ IsLower(c)

lower_char(c) == IF IsUpper(c) THEN LowerChars[CHOOSE i \in DOMAIN UpperChars : UpperChars[i] = c] ELSE c
lower(s) == [i \in DOMAIN s |-> lower_char(s[i])]

\* s[i:] with i counted from 1
From(s, i) == SubSeq(s, i, Len(s))

\* sub in s, and s.find(sub) counted from 1 (0 when absent)
StartsAt(s, i, sub) == i + Len(sub) - 1 <= Len(s) /\ SubSeq(s, i, i + Len(sub) - 1) = sub
contains(s, sub) == \E i \in 1..(Len(s) + 1) : StartsAt(s, i, sub)
find(s, sub) == IF contains(s, sub) THEN CHOOSE i \in 1..(Len(s) + 1) : StartsAt(s, i, sub) /\ \A j \in 1..(i - 1) : ~StartsAt(s, j, sub) ELSE 0
endswith(s, suffix) == Len(suffix) <= Len(s) /\ StartsAt(s, Len(s) - Len(suffix) + 1, suffix)
startswith(s, prefix) == StartsAt(s, 1, prefix)

\* s.strip(): the whitespace at both ends removed
strip(s) ==
    IF \A i \in DOMAIN s : IsSpace(s[i]) THEN <<>>
    ELSE SubSeq(s, CHOOSE i \in DOMAIN s : ~IsSpace(s[i]) /\ \A j \in 1..(i - 1) : IsSpace(s[j]),
                   CHOOSE i \in DOMAIN s : ~IsSpace(s[i]) /\ \A j \in (i + 1)..Len(s) : IsSpace(s[j]))

\* the least element of a non-empty set of integers
Least(S) == CHOOSE x \in S : \A y \in S : x <= y

\* the end of the run of digits, of whitespace, that starts at i (i - 1 when empty)
DigitsEnd(s, i) == Least({j \in i..(Len(s) + 1) : j = Len(s) + 1 \/ ~IsDigit(s[j])}) - 1
SpacesEnd(s, i) == Least({j \in i..(Len(s) + 1) : j = Len(s) + 1 \/ ~IsSpace(s[j])}) - 1

\* int() of a run of digits
RECURSIVE ToInt(_)
ToInt(ds) == IF ds = <<>> THEN 0 ELSE 10 * ToInt(SubSeq(ds, 1, Len(ds) - 1)) + DigitVal(ds[Len(ds)])

\* the starts of the maximal runs of digits in s
RunStarts(s) == {p \in DOMAIN s : IsDigit(s[p]) /\ (p = 1 \/ ~IsDigit(s[p - 1]))}
DigitRun(s, p) == SubSeq(s, p, DigitsEnd(s, p))

\* the variables a specification leaves alone
parseVars == <<text, today>>
runVars == <<env, response, doc, rows, store, before, now, fetches, clients, upserts>>
appendVars == <<existing, to_insert>>

NoEnv == [SUPABASE_URL |-> None, SUPABASE_SERVICE_KEY |-> None]
NoDoc == [titles |-> <<>>, headings |-> <<>>]
NoParse == text = <<>> /\ today = 0
NoLocate == chain = <<>>
NoRun == env = NoEnv /\ response = None /\ doc = NoDoc /\ rows = <<>> /\ store = {} /\ before = {} /\ now = 0 /\ fetches = 0 /\ clients = 0 /\ upserts = 0
NoAppend == existing = {} /\ to_insert = <<>>

----------------------------------------------------------------------------
(* parse_payout                                                            *)

\* re.sub(r"[\s,]", "", text)
CleanChar(c) == ~(IsSpace(c) \/ c = ",")
text_clean_of(t) == SelectSeq(t, CleanChar)

\* re.search(r"\$?(\d+)\s*-\s*\$?(\d+)", text_clean): the start of group 1 and of
\* group 2 of the leftmost match.  text_clean holds no whitespace, so \s* matches
\* nothing; \d+ is greedy, so a match takes a whole run of digits.
RangeSecond(tc, p) == With(DigitsEnd(tc, p) + 2, LAMBDA q : IF q <= Len(tc) /\ tc[q] = "$" THEN q + 1 ELSE q)
RangeAt(tc, p) ==
    With(DigitsEnd(tc, p), LAMBDA e : With(RangeSecond(tc, p), LAMBDA q :
        e + 1 <= Len(tc) /\ tc[e + 1] = "-" /\ q <= Len(tc) /\ IsDigit(tc[q])))
range_m(tc) == {p \in RunStarts(tc) : RangeAt(tc, p)}

\* re.search(r"(?:up\s*to\s*)?\$?(\d+)", text_clean): group 1 is the first run of digits
single_m(tc) == RunStarts(tc)

\* re.search(r"\$?(\d+)\s*\+", text_clean): a run of digits followed by "+"
PlusAt(tc, p) == With(DigitsEnd(tc, p), LAMBDA e : e + 1 <= Len(tc) /\ tc[e + 1] = "+")
plus_m(tc) == {p \in RunStarts(tc) : PlusAt(tc, p)}

Payout(min_val, max_val, display) == [min |-> min_val, max |-> max_val, display |-> display]

parse_payout(t) ==
    IF t = <<>> \/ strip(t) = <<>> THEN Payout(None, None, <<"V","a","r","i","e","s">>)
    ELSE With(strip(t), LAMBDA tx : With(text_clean_of(tx), LAMBDA text_clean : With(strip(tx), LAMBDA display :
             IF range_m(text_clean) # {}
             THEN With(Least(range_m(text_clean)), LAMBDA p :
                      Payout(Some(ToInt(DigitRun(text_clean, p))),
                             Some(ToInt(DigitRun(text_clean, RangeSecond(text_clean, p)))),
                             display))
             ELSE IF single_m(text_clean) # {}
             THEN With(ToInt(DigitRun(text_clean, Least(single_m(text_clean)))), LAMBDA val :
                      IF contains(lower(tx), <<"u","p"," ","t","o">>) \/ contains(lower(tx), <<"m","a","x">>)
                      THEN Payout(Some(0), Some(val), display)
                      ELSE Payout(Some(val), Some(val), display))
             ELSE IF plus_m(text_clean) # {}
             THEN Payout(Some(ToInt(DigitRun(text_clean, Least(plus_m(text_clean))))), None, display)
             ELSE Payout(None, None, display))))

\* The payout texts checked: an optional lead, an amount with or without "$",
\* and what follows it.
Amounts == {<<"1","0">>, <<"1","0","0">>, <<"1",",","0","0","0">>}
PayoutLeads == {<<>>, <<"U","p"," ","t","o"," ">>, <<"m","a","x"," ">>}
Dollars == {<<"$">>, <<>>}
PayoutTails == {<<>>, <<"+">>, <<" ","-"," ","$","2",",","5","0","0">>, <<"-","2","5","0","0">>, <<"ndash","$","2",",","5","0","0">>, <<" ","e","a","c","h">>}
PayoutTexts ==
    {l \o d \o a \o s : l \in PayoutLeads, d \in Dollars, a \in Amounts, s \in PayoutTails}
        \cup {<<>>, <<" "," ">>, <<"V","a","r","i","e","s">>}

AmountVal(a) == ToInt(SelectSeq(a, IsDigit))

PayoutInit == phase = "input" /\ text \in PayoutTexts /\ today = 0 /\ result = None /\ NoLocate /\ NoRun /\ NoAppend

ParsePayout ==
    /\ phase = "input"
    /\ result' = parse_payout(text)
    /\ phase' = "returned"
    /\ UNCHANGED <<parseVars, chain, runVars, appendVars>>

PayoutNext == ParsePayout

SpecPayout == PayoutInit /\ [][PayoutNext]_vars

\* C10: "$X+" gives min = X and max = null, a bare "$X" gives min = max = X, and a
\* range "$A - $B" or "$A–$B" gives min = A and max = B.
C10_PlusBareRange ==
    phase = "returned" =>
        \A a \in Amounts :
            /\ text = <<"$">> \o a \o <<"+">> => (result.min = Some(AmountVal(a)) /\ result.max = None)
            /\ text = <<"$">> \o a => (result.min = Some(AmountVal(a)) /\ result.max = Some(AmountVal(a)))
            /\ text \in {<<"$">> \o a \o <<" ","-"," ","$","2",",","5","0","0">>, <<"$">> \o a \o <<"ndash","$","2",",","5","0","0">>} =>
                   (result.min = Some(AmountVal(a)) /\ result.max = Some(2500))

\* what the code returns for the three shapes of C10
PayoutOfCode ==
    phase = "returned" =>
        \A a \in Amounts :
            /\ text = <<"$">> \o a \o <<"+">> => (result.min = Some(AmountVal(a)) /\ result.max = Some(AmountVal(a)))
            /\ text = <<"$">> \o a => (result.min = Some(AmountVal(a)) /\ result.max = Some(AmountVal(a)))
            /\ text = <<"$">> \o a \o <<" ","-"," ","$","2",",","5","0","0">> => (result.min = Some(AmountVal(a)) /\ result.max = Some(2500))
            /\ text = <<"$">> \o a \o <<"ndash","$","2",",","5","0","0">> => (result.min = Some(AmountVal(a)) /\ result.max = Some(AmountVal(a)))

----------------------------------------------------------------------------
(* parse_proof                                                             *)

\* where \s* ends when it starts at i
SkipSpace(s, i) == SpacesEnd(s, i) + 1

\* re.search(r"proof\s*required\?\s*<value>", text, re.IGNORECASE) matching at i
ProofLabelAt(ls, i, value) ==
    With(SkipSpace(ls, i + 5), LAMBDA j : With(SkipSpace(ls, j + 9), LAMBDA k :
        StartsAt(ls, i, <<"p","r","o","o","f">>) /\ StartsAt(ls, j, <<"r","e","q","u","i","r","e","d","?">>) /\ StartsAt(ls, k, value)))
proof_search(s, value) == With(lower(s), LAMBDA ls : \E i \in DOMAIN s : ProofLabelAt(ls, i, value))

parse_proof_conflated(t) ==
    IF t = <<>> THEN None
    ELSE IF proof_search(t, <<"y","e","s">>) THEN Some(TRUE)
    ELSE Some(FALSE)

parse_proof(t) ==
    IF t = <<>> THEN None
    ELSE IF proof_search(t, <<"n","o">>) THEN Some(FALSE)
    ELSE IF proof_search(t, <<"y","e","s">>) THEN Some(TRUE)
    ELSE IF proof_search(t, <<"n","/","a">>) THEN None
    ELSE None

\* The card texts checked: a lead, a label, the space after it and its value;
\* and texts that hold two labels.
ProofLeads == {<<>>, <<"P","a","y","o","u","t"," ","$","1","0"," ">>}
ProofLabels == {<<"P","r","o","o","f"," ","R","e","q","u","i","r","e","d","?">>, <<"p","r","o","o","f"," "," ","r","e","q","u","i","r","e","d","?">>, <<"P","r","o","o","f","R","e","q","u","i","r","e","d","?">>, <<"P","r","o","o","f"," ","R","e","q","u","i","r","e","d">>, <<"P","r","o","o","f"," ","N","e","e","d","e","d","?">>}
ProofSeps == {<<" ">>, <<>>, <<"\n">>}
ProofValues == {<<"N","o">>, <<"Y","e","s">>, <<"N","/","A">>, <<"n","o">>, <<"Y","E","S">>, <<"n","/","a">>, <<"M","a","y","b","e">>, <<>>}
OneLabelTexts == {l \o b \o s \o v : l \in ProofLeads, b \in ProofLabels, s \in ProofSeps, v \in ProofValues}
TwoLabelTexts ==
    {<<"P","r","o","o","f"," ","R","e","q","u","i","r","e","d","?"," ">> \o v \o <<" ","D","e","a","d","l","i","n","e"," ","2","/","1","7","/","2","6"," ","P","r","o","o","f"," ","R","e","q","u","i","r","e","d","?"," ">> \o w : v, w \in {<<"N","o">>, <<"Y","e","s">>, <<"N","/","A">>}}
ProofTexts == OneLabelTexts \cup TwoLabelTexts \cup {<<>>, <<"P","a","y","o","u","t"," ","$","1","0"," ","D","e","a","d","l","i","n","e"," ","2","/","1","7","/","2","6">>}

ProofInit == phase = "input" /\ text \in ProofTexts /\ today = 0 /\ result = None /\ NoLocate /\ NoRun /\ NoAppend

ParseProof ==
    /\ phase = "input"
    /\ result' = parse_proof(text)
    /\ phase' = "returned"
    /\ UNCHANGED <<parseVars, chain, runVars, appendVars>>

ProofNext == ParseProof

SpecProof == ProofInit /\ [][ProofNext]_vars

SaysNo == contains(text, <<"P","r","o","o","f"," ","R","e","q","u","i","r","e","d","?"," ","N","o">>)
SaysYes == contains(text, <<"P","r","o","o","f"," ","R","e","q","u","i","r","e","d","?"," ","Y","e","s">>)
SaysNA == contains(text, <<"P","r","o","o","f"," ","R","e","q","u","i","r","e","d","?"," ","N","/","A">>)
NoProofLabel == ~contains(lower(text), <<"p","r","o","o","f">>) \/ ~contains(lower(text), <<"r","e","q","u","i","r","e","d","?">>)

\* C8: card text whose proof label says No yields false, Yes yields true, and text
\* with no such label or with N/A yields unknown (null), never false.
C8_ProofTriState ==
    phase = "returned" =>
        /\ SaysNo /\ ~SaysYes => result = Some(FALSE)
        /\ SaysYes /\ ~SaysNo => result = Some(TRUE)
        /\ (NoProofLabel \/ (SaysNA /\ ~SaysNo /\ ~SaysYes)) => result = None

C8_Witness ==
    /\ phase = "returned"
    /\ text = <<"P","a","y","o","u","t"," ","$","1","0"," ","P","r","o","o","f"," ","R","e","q","u","i","r","e","d","?"," ","N","/","A">>
    /\ result = None

\* a text that holds both a No label and a Yes label yields false: the No
\* pattern is searched first
ProofNoFirst == phase = "returned" /\ SaysNo /\ SaysYes => result = Some(FALSE)

----------------------------------------------------------------------------
(* The calendar of datetime: dates are records, date - date is the          *)
(* difference of the proleptic Gregorian ordinals.                          *)

IsLeap(y) == (y % 4 = 0 /\ y % 100 # 0) \/ y % 400 = 0
DaysInMonth(y, m) == IF m = 2 THEN (IF IsLeap(y) THEN 29 ELSE 28) ELSE IF m \in {4, 6, 9, 11} THEN 30 ELSE 31
DaysBeforeYear(y) == (y - 1) * 365 + (y - 1) \div 4 - (y - 1) \div 100 + (y - 1) \div 400
RECURSIVE DaysBeforeMonth(_, _)
DaysBeforeMonth(y, m) == IF m = 1 THEN 0 ELSE DaysBeforeMonth(y, m - 1) + DaysInMonth(y, m - 1)
Date(y, m, d) == [year |-> y, month |-> m, day |-> d]
toordinal(dt) == DaysBeforeYear(dt.year) + DaysBeforeMonth(dt.year, dt.month) + dt.day

\* datetime(y, m, d): ValueError (None) unless the date exists
MakeDate(y, m, d) ==
    IF y \in 1..9999 /\ m \in 1..12 /\ d >= 1 /\ d <= DaysInMonth(y, m) THEN Some(Date(y, m, d)) ELSE None

\* the three fields of a string "a<sep>b<sep>c"
SepAt(s, sep) == {i \in DOMAIN s : s[i] = sep}
Field1(s, sep) == SubSeq(s, 1, Least(SepAt(s, sep)) - 1)
Field2(s, sep) == With(Least(SepAt(s, sep)), LAMBDA a : SubSeq(s, a + 1, Least(SepAt(s, sep) \ {a}) - 1))
Field3(s, sep) == With(Least(SepAt(s, sep)), LAMBDA a : From(s, Least(SepAt(s, sep) \ {a}) + 1))
AllDigits(s) == s # <<>> /\ \A i \in DOMAIN s : IsDigit(s[i])

\* %m and %d of strptime: one or two digits with a value in range
\* (the regexes 1[0-2]|0[1-9]|[1-9] and 3[01]|[12]\d|0[1-9]|[1-9])
MonthField(f) == AllDigits(f) /\ Len(f) <= 2 /\ ToInt(f) \in 1..12
DayField(f) == AllDigits(f) /\ Len(f) <= 2 /\ ToInt(f) \in 1..31

\* %y: exactly two digits, 69-99 in 1900 and 00-68 in 2000; %Y: exactly four digits
Year_y(f) == IF ToInt(f) <= 68 THEN 2000 + ToInt(f) ELSE 1900 + ToInt(f)

\* datetime.strptime(s, "%m/%d/%y"), "%m/%d/%Y" and "%Y-%m-%d": None is ValueError
WellFormed(s, sep) == Cardinality(SepAt(s, sep)) = 2
strptime_mdy(s) ==
    IF WellFormed(s, "/") /\ MonthField(Field1(s, "/")) /\ DayField(Field2(s, "/"))
       /\ AllDigits(Field3(s, "/")) /\ Len(Field3(s, "/")) = 2
    THEN MakeDate(Year_y(Field3(s, "/")), ToInt(Field1(s, "/")), ToInt(Field2(s, "/")))
    ELSE None
strptime_mdY(s) ==
    IF WellFormed(s, "/") /\ MonthField(Field1(s, "/")) /\ DayField(Field2(s, "/"))
       /\ AllDigits(Field3(s, "/")) /\ Len(Field3(s, "/")) = 4
    THEN MakeDate(ToInt(Field3(s, "/")), ToInt(Field1(s, "/")), ToInt(Field2(s, "/")))
    ELSE None
strptime_Ymd(s) ==
    IF WellFormed(s, "-") /\ AllDigits(Field1(s, "-")) /\ Len(Field1(s, "-")) = 4
       /\ MonthField(Field2(s, "-")) /\ DayField(Field3(s, "-"))
    THEN MakeDate(ToInt(Field1(s, "-")), ToInt(Field2(s, "-")), ToInt(Field3(s, "-")))
    ELSE None

\* dt.strftime("%Y-%m-%d") for a year of four digits
DigitOf(n) == DigitChars[n + 1]
Pad2(n) == <<DigitOf(n \div 10), DigitOf(n % 10)>>
Pad4(n) == <<DigitOf(n \div 1000), DigitOf((n \div 100) % 10), DigitOf((n \div 10) % 10), DigitOf(n % 10)>>
strftime_Ymd(dt) == Pad4(dt.year) \o <<"-">> \o Pad2(dt.month) \o <<"-">> \o Pad2(dt.day)

----------------------------------------------------------------------------
(* parse_deadline_and_days                                                 *)

\* re.search(r"deadline\s*(\d{1,2}/\d{1,2}/\d{2,4})", text, re.IGNORECASE) at i:
\* where group 1 starts and ends.  \d{1,2} must end at a "/", \d{2,4} takes up to
\* four digits of the run.
DeadlineGroupStart(s, i) == SkipSpace(s, i + 8)
DeadlineGroupEnd(s, i) ==
    With(DigitsEnd(s, DeadlineGroupStart(s, i)), LAMBDA e1 : With(DigitsEnd(s, e1 + 2), LAMBDA e2 : With(DigitsEnd(s, e2 + 2), LAMBDA e3 :
        IF e3 - (e2 + 2) + 1 > 4 THEN e2 + 5 ELSE e3)))
DeadlineAt(s, ls, i) ==
    /\ StartsAt(ls, i, <<"d","e","a","d","l","i","n","e">>)
    /\ With(DeadlineGroupStart(s, i), LAMBDA m1 : With(DigitsEnd(s, m1), LAMBDA e1 : With(DigitsEnd(s, e1 + 2), LAMBDA e2 : With(DigitsEnd(s, e2 + 2), LAMBDA e3 :
            /\ e1 - m1 + 1 \in 1..2 /\ e1 + 1 <= Len(s) /\ s[e1 + 1] = "/"
            /\ e2 - (e1 + 2) + 1 \in 1..2 /\ e2 + 1 <= Len(s) /\ s[e2 + 1] = "/"
            /\ e3 - (e2 + 2) + 1 >= 2))))
deadline_m(s) == With(lower(s), LAMBDA ls : {i \in DOMAIN s : DeadlineAt(s, ls, i)})

\* re.search(r"(?:<\s*)?(\d+)\s*Days?\s*Left", text, re.IGNORECASE): the starts of
\* the runs of digits that the pattern matches
DaysAt(s, ls, p) ==
    With(SkipSpace(s, DigitsEnd(s, p) + 1), LAMBDA j :
        /\ StartsAt(ls, j, <<"d","a","y">>)
        /\ StartsAt(ls, SkipSpace(s, IF j + 3 <= Len(s) /\ ls[j + 3] = "s" THEN j + 4 ELSE j + 3), <<"l","e","f","t">>))
days_m(s) == With(lower(s), LAMBDA ls : {p \in RunStarts(s) : DaysAt(s, ls, p)})

\* the date string of lines 83-93: %m/%d/%y first, %m/%d/%Y on ValueError
date_str_of(s) ==
    IF deadline_m(s) = {} THEN None
    ELSE With(Least(deadline_m(s)), LAMBDA i : With(SubSeq(s, DeadlineGroupStart(s, i), DeadlineGroupEnd(s, i)), LAMBDA g :
             IF strptime_mdy(g) # None THEN Some(strftime_Ymd(strptime_mdy(g)[1]))
             ELSE IF strptime_mdY(g) # None THEN Some(strftime_Ymd(strptime_mdY(g)[1]))
             ELSE None))

Max0(n) == IF n > 0 THEN n ELSE 0

\* lines 95-105: the day count from the pattern, or else from the date
days_left_unclamped(s, date_str, day) ==
    IF days_m(s) # {} THEN Some(ToInt(DigitRun(s, Least(days_m(s)))))
    ELSE IF date_str # None /\ strptime_Ymd(date_str[1]) # None
    THEN Some(toordinal(strptime_Ymd(date_str[1])[1]) - day)
    ELSE None

days_left_of(s, date_str, day) ==
    IF days_m(s) # {} THEN Some(ToInt(DigitRun(s, Least(days_m(s)))))
    ELSE IF date_str # None /\ strptime_Ymd(date_str[1]) # None
    THEN Some(Max0(toordinal(strptime_Ymd(date_str[1])[1]) - day))
    ELSE None

parse_deadline_and_days(s, day) ==
    IF s = <<>> THEN [deadline |-> None, days_left |-> None]
    ELSE With(date_str_of(s), LAMBDA date_str : [deadline |-> date_str, days_left |-> days_left_of(s, date_str, day)])

----------------------------------------------------------------------------
(* _parse_card_text                                                        *)

\* re.search(r"Payout\s*([^\n]+?)(?=Deadline|Proof|Required|$)", text,
\* re.IGNORECASE | re.DOTALL): group 1 runs from g to e - 1.  \s* is greedy and
\* gives whitespace back, the group is lazy and holds no newline, and the
\* lookahead holds before a label, at the end, or before a final newline.
PayoutLookahead(s, ls, e) ==
    \/ e = Len(s) + 1
    \/ e = Len(s) /\ s[e] = "\n"
    \/ StartsAt(ls, e, <<"d","e","a","d","l","i","n","e">>)
    \/ StartsAt(ls, e, <<"p","r","o","o","f">>)
    \/ StartsAt(ls, e, <<"r","e","q","u","i","r","e","d">>)
PayoutGroup(s, ls, g, e) == g < e /\ e <= Len(s) + 1 /\ PayoutLookahead(s, ls, e) /\ \A x \in g..(e - 1) : s[x] # "\n"
PayoutGroupStarts(s, ls, i) ==
    IF StartsAt(ls, i, <<"p","a","y","o","u","t">>)
    THEN {g \in (i + 6)..SkipSpace(s, i + 6) : \E e \in (g + 1)..(Len(s) + 1) : PayoutGroup(s, ls, g, e)}
    ELSE {}
payout_m(s, ls) == {i \in DOMAIN s : PayoutGroupStarts(s, ls, i) # {}}
payout_group(s, ls) ==
    With(PayoutGroupStarts(s, ls, Least(payout_m(s, ls))), LAMBDA starts :
        With(CHOOSE x \in starts : \A y \in starts : y <= x, LAMBDA g :
            SubSeq(s, g, Least({x \in (g + 1)..(Len(s) + 1) : PayoutGroup(s, ls, g, x)}) - 1)))

card_payout(s) ==
    With(lower(s), LAMBDA ls :
        IF contains(s, <<"P","a","y","o","u","t">>) /\ payout_m(s, ls) # {} THEN parse_payout(payout_group(s, ls))
        ELSE Payout(None, None, <<"V","a","r","i","e","s">>))

\* lines 199-205: the parser runs only when the text holds "Deadline" or
\* "Days Left" as written; the second search repeats the parser's own
card_deadline_always(s, day) == parse_deadline_and_days(s, day)
card_deadline(s, day) ==
    IF contains(s, <<"D","e","a","d","l","i","n","e">>) \/ contains(s, <<"D","a","y","s"," ","L","e","f","t">>)
    THEN With(parse_deadline_and_days(s, day), LAMBDA dd :
             IF dd.days_left = None /\ contains(s, <<"D","a","y","s"," ","L","e","f","t">>) /\ days_m(s) # {}
             THEN [dd EXCEPT !.days_left = Some(ToInt(DigitRun(s, Least(days_m(s)))))]
             ELSE dd)
    ELSE [deadline |-> None, days_left |-> None]

\* re.split(r"[.!?]\s+", text)
SentenceEnds(s) == {i \in DOMAIN s : s[i] \in {".", "!", "?"} /\ i + 1 <= Len(s) /\ IsSpace(s[i + 1])}
RECURSIVE split_sentences(_)
split_sentences(s) ==
    IF SentenceEnds(s) = {} THEN <<s>>
    ELSE With(Least(SentenceEnds(s)), LAMBDA i : <<SubSeq(s, 1, i - 1)>> \o split_sentences(From(s, SkipSpace(s, i + 1))))
Qualifies(sent) == contains(lower(sent), <<"y","o","u"," ","m","a","y"," ","b","e">>) \/ contains(lower(sent), <<"c","l","a","s","s"," ","m","e","m","b","e","r","s">>)
card_eligibility(s) ==
    With(split_sentences(s), LAMBDA sents : With({i \in DOMAIN sents : Qualifies(sents[i])}, LAMBDA hits :
        With(IF hits = {} THEN <<>> ELSE strip(sents[Least(hits)]), LAMBDA first :
            IF first # <<>> THEN Some(first)
            ELSE IF Len(s) > 200 THEN Some(strip(SubSeq(s, 1, IF Len(s) < 500 THEN Len(s) ELSE 500)))
            ELSE None)))

parse_card_text(s, day) ==
    With(card_payout(s), LAMBDA payout : With(card_deadline(s, day), LAMBDA dd :
        [payout_display |-> payout.display,
         payout_min |-> payout.min,
         payout_max |-> payout.max,
         deadline_str |-> dd.deadline,
         days_left |-> dd.days_left,
         requires_proof |-> parse_proof(s),
         eligibility |-> card_eligibility(s)]))

\* The card texts checked: a lead, a deadline part with the date it means (None
\* when the code parses none) and a days-left part with its count.
CardLeads == {<<>>, <<"P","a","y","o","u","t"," ","$","1","0","+"," ">>, <<"Y","o","u"," ","m","a","y"," ","b","e"," ","e","l","i","g","i","b","l","e","."," ">>}
DeadlineParts ==
    {[text |-> <<>>, date |-> None],
     [text |-> <<"D","e","a","d","l","i","n","e"," ","2","/","1","7","/","2","6"," ">>, date |-> Some(Date(2026, 2, 17))],
     [text |-> <<"D","e","a","d","l","i","n","e"," ","1","2","/","3","1","/","9","9"," ">>, date |-> Some(Date(1999, 12, 31))],
     [text |-> <<"D","e","a","d","l","i","n","e"," ","2","/","1","7","/","2","0","2","6"," ">>, date |-> Some(Date(2026, 2, 17))],
     [text |-> <<"D","e","a","d","l","i","n","e"," ","2","/","2","9","/","2","8"," ">>, date |-> Some(Date(2028, 2, 29))],
     [text |-> <<"D","e","a","d","l","i","n","e"," ","2","/","3","0","/","2","6"," ">>, date |-> None],
     [text |-> <<"D","e","a","d","l","i","n","e"," ","2","/","1","7","/","2","0","2"," ">>, date |-> None],
     [text |-> <<"D","e","a","d","l","i","n","e"," ","1","3","/","1","/","2","6"," ">>, date |-> None],
     [text |-> <<"D","e","a","d","l","i","n","e",":"," ","2","/","1","7","/","2","6"," ">>, date |-> None],
     [text |-> <<"d","e","a","d","l","i","n","e"," ","3","/","1","/","2","8"," ">>, date |-> Some(Date(2028, 3, 1))]}
DaysParts ==
    {[text |-> <<>>, n |-> None],
     [text |-> <<"2","0"," ","D","a","y","s"," ","L","e","f","t">>, n |-> Some(20)],
     [text |-> <<"<"," ","7"," ","D","a","y","s"," ","L","e","f","t">>, n |-> Some(7)],
     [text |-> <<"0"," ","D","a","y","s"," ","L","e","f","t">>, n |-> Some(0)],
     [text |-> <<"1"," ","D","a","y"," ","L","e","f","t">>, n |-> Some(1)],
     [text |-> <<"3"," ","d","a","y","s"," ","l","e","f","t">>, n |-> Some(3)]}
Todays == {toordinal(Date(2026, 2, 10)), toordinal(Date(2026, 2, 17)), toordinal(Date(2026, 11, 5))}
CardTexts == {l \o d.text \o y.text : l \in CardLeads, d \in DeadlineParts, y \in DaysParts}

CardInit == phase = "input" /\ text \in CardTexts /\ today \in Todays /\ result = None /\ NoLocate /\ NoRun /\ NoAppend

ParseCardText ==
    /\ phase = "input"
    /\ result' = parse_card_text(text, today)
    /\ phase' = "returned"
    /\ UNCHANGED <<parseVars, chain, runVars, appendVars>>

CardNext == ParseCardText

SpecCard == CardInit /\ [][CardNext]_vars

\* what a days_left of C7 must be for a card made of deadline part d and days part y
DaysLeftClaimed(d, y, r) ==
    /\ (r.deadline_str # None /\ d.date # None /\ y.n = None) => r.days_left = Some(Max0(toordinal(d.date[1]) - today))
    /\ y.n # None => r.days_left = y.n
    /\ r.days_left = None \/ r.days_left[1] >= 0

\* C7: with a deadline parsed and no "<N> Days Left" pattern, days_left is
\* max(0, deadline - today); with the pattern, days_left is its N; and days_left
\* is always null or a non-negative integer.
C7_DaysLeft ==
    phase = "returned" =>
        \A l \in CardLeads, d \in DeadlineParts, y \in DaysParts :
            text = l \o d.text \o y.text => DaysLeftClaimed(d, y, result)

\* the same of parse_deadline_and_days called on the text itself
DaysLeftOfParser ==
    \A l \in CardLeads, d \in DeadlineParts, y \in DaysParts :
        text = l \o d.text \o y.text =>
            DaysLeftClaimed(d, y, [deadline_str |-> parse_deadline_and_days(text, today).deadline,
                                   days_left |-> parse_deadline_and_days(text, today).days_left])

\* the same of the card parser on the texts that hold "Deadline" or "Days Left"
DaysLeftBehindGate ==
    phase = "returned" /\ (contains(text, <<"D","e","a","d","l","i","n","e">>) \/ contains(text, <<"D","a","y","s"," ","L","e","f","t">>)) =>
        \A l \in CardLeads, d \in DeadlineParts, y \in DaysParts :
            text = l \o d.text \o y.text => DaysLeftClaimed(d, y, result)

\* the deadline string is the date the part means
DeadlineString ==
    phase = "returned" /\ result.deadline_str # None =>
        \A l \in CardLeads, d \in DeadlineParts, y \in DaysParts :
            text = l \o d.text \o y.text => d.date # None /\ result.deadline_str = Some(strftime_Ymd(d.date[1]))

----------------------------------------------------------------------------
(* The card of a title node (scrape_settlements, strategy 1): the walk up   *)
(* the ancestors.  An ancestor is its flattened text's length, whether the  *)
(* text holds both "Payout" and "Deadline", the hrefs of its links in        *)
(* document order, and what _parse_card_text reads in its text.             *)

MaxDepth == 8
MinTextLen == 50

\* lines 241-245: the first link that starts with "http" and is not of classaction.org
IsClaimHref(href) == startswith(strip(href), <<"h","t","t","p">>) /\ ~contains(strip(href), <<"c","l","a","s","s","a","c","t","i","o","n",".","o","r","g">>)
claim_url_of(links) ==
    With({i \in DOMAIN links : IsClaimHref(links[i])}, LAMBDA hits :
        IF hits = {} THEN None ELSE Some(strip(links[Least(hits)])))

\* the window of the specification: 150 to 800 characters and both keywords
AcceptsWindow(a) == claim_url_of(a.links) # None /\ a.len >= 150 /\ a.len <= 800 /\ a.kw

\* line 246 negated: the ancestor is taken as the card
Accepts(a) == claim_url_of(a.links) # None /\ ~(a.len < MinTextLen)

\* lines 235-265: the index of the first ancestor taken, among the nearest
\* MaxDepth; 0 when the loop ends without a row
find_card(ancestors) ==
    With({i \in DOMAIN ancestors : i <= MaxDepth /\ Accepts(ancestors[i])}, LAMBDA hits :
        IF hits = {} THEN 0 ELSE Least(hits))

\* The ancestors checked.  A parent's text holds its child's, so lengths,
\* keywords and links only grow on the way up.
TextLens == {49, 50, 140, 300, 900}
LinksAt(level) ==
    SubSeq(<<<<"/","s","e","t","t","l","e","m","e","n","t","s","/","a","c","m","e">>, <<"h","t","t","p","s",":","/","/","w","w","w",".","c","l","a","s","s","a","c","t","i","o","n",".","o","r","g","/","n","e","w","s">>, <<" ","h","t","t","p","s",":","/","/","a","c","m","e",".","c","o","m","/","c","l","a","i","m"," ">>>>, 1, level)
LinkLevels == 0..3
MaxShort == 3
MaxPad == 8
Ancestor(n, k, level, f) == [len |-> n, kw |-> k, level |-> level, links |-> LinksAt(level), fields |-> f]
Ancestors == {Ancestor(n, k, level, 0) : n \in TextLens, k \in BOOLEAN, level \in LinkLevels}
Grows(a, b) == a.len <= b.len /\ (a.kw => b.kw) /\ a.level <= b.level
Extend(c) == {Append(c, a) : a \in {x \in Ancestors : c = <<>> \/ Grows(c[Len(c)], x)}}
RECURSIVE ShortChains(_)
ShortChains(n) ==
    IF n = 0 THEN {<<>>}
    ELSE With(ShortChains(n - 1), LAMBDA shorter :
             shorter \cup UNION {Extend(c) : c \in {x \in shorter : Len(x) = n - 1}})
Pad(k) == [i \in 1..k |-> Ancestor(49, FALSE, 0, 0)]
LocateChains == {Pad(k) \o c : k \in 0..MaxPad, c \in ShortChains(MaxShort)}

LocateInit == phase = "input" /\ chain \in LocateChains /\ result = None /\ NoParse /\ NoRun /\ NoAppend

Locate ==
    /\ phase = "input"
    /\ result' = find_card(chain)
    /\ phase' = "returned"
    /\ UNCHANGED <<parseVars, chain, runVars, appendVars>>

LocateNext == Locate

SpecLocate == LocateInit /\ [][LocateNext]_vars

\* C6: an ancestor is taken as the card only if its text length is within 150 to
\* 800 characters and it holds both keywords: one of 140 characters is rejected,
\* one of 300 with both keywords is taken, one of 900 is rejected.
C6_Window ==
    phase = "returned" =>
        /\ result # 0 => (chain[result].len >= 150 /\ chain[result].len <= 800 /\ chain[result].kw)
        /\ \A i \in DOMAIN chain : chain[i].len \in {140, 900} => result # i

HasClaimLink(a) == a.level = 3
Qualifies50(a) == HasClaimLink(a) /\ a.len >= 50

\* C6 as amended: the card is the first of the nearest eight ancestors that
\* holds an external claim link and at least 50 characters of text, whatever
\* its keywords and however long its text; with none, the title gives no row.
C6_FloorOnly ==
    phase = "returned" =>
        /\ result # 0 => (result <= 8 /\ result <= Len(chain) /\ Qualifies50(chain[result]))
        /\ \A i \in DOMAIN chain : (i <= 8 /\ Qualifies50(chain[i])) => (result # 0 /\ result <= i)

C6_Witness ==
    /\ phase = "returned"
    /\ result = 2
    /\ chain[1].len = 49 /\ HasClaimLink(chain[1])
    /\ chain[2].len = 900 /\ ~chain[2].kw

\* an ancestor beyond the eighth is never taken
LocateDepth == phase = "returned" /\ Len(chain) > 8 /\ (\A i \in 1..8 : ~Qualifies50(chain[i])) => result = 0

----------------------------------------------------------------------------
(* slug_from_name, company_from_name, the classification and                *)
(* _row_from_parsed                                                          *)

\* s.replace(old, new): the occurrences of old, left to right
RECURSIVE replace(_, _, _)
replace(s, old, new) ==
    IF find(s, old) = 0 THEN s
    ELSE With(find(s, old), LAMBDA i : SubSeq(s, 1, i - 1) \o new \o replace(From(s, i + Len(old)), old, new))

\* re.sub(r"\s+", " ", s)
RECURSIVE collapse_spaces(_)
collapse_spaces(s) ==
    IF s = <<>> THEN <<>>
    ELSE IF IsSpace(s[1]) THEN <<" ">> \o collapse_spaces(From(s, SkipSpace(s, 1)))
    ELSE <<s[1]>> \o collapse_spaces(Tail(s))

\* s.strip("-")
strip_hyphens(s) ==
    IF \A i \in DOMAIN s : s[i] = "-" THEN <<>>
    ELSE SubSeq(s, Least({i \in DOMAIN s : s[i] # "-"}),
                   CHOOSE i \in DOMAIN s : s[i] # "-" /\ \A j \in (i + 1)..Len(s) : s[j] = "-")

cut_suffix(s, suffix) == IF endswith(s, suffix) THEN SubSeq(s, 1, Len(s) - Len(suffix)) ELSE s
SlugChar(c) == IsAlnum(c) \/ c = "-"

slug_from_name(name) ==
    strip_hyphens(SelectSeq(
        replace(replace(replace(
            collapse_spaces(cut_suffix(cut_suffix(strip(lower(name)), <<" ","c","l","a","s","s"," ","a","c","t","i","o","n"," ","s","e","t","t","l","e","m","e","n","t">>), <<" ","-"," ","c","l","a","s","s"," ","a","c","t","i","o","n"," ","s","e","t","t","l","e","m","e","n","t">>)),
            <<" ","-"," ">>, <<"-">>), <<" ">>, <<"-">>), <<"&">>, <<"a","n","d">>),
        SlugChar))

company_from_name(name) ==
    IF contains(name, <<" ","-"," ">>) THEN strip(SubSeq(name, 1, find(name, <<" ","-"," ">>) - 1)) ELSE strip(name)

MAJOR_BRANDS ==
    {<<"2","3","a","n","d","m","e">>, <<"a","m","a","z","o","n">>, <<"g","o","o","g","l","e">>, <<"f","a","c","e","b","o","o","k">>, <<"m","e","t","a">>, <<"a","p","p","l","e">>, <<"m","i","c","r","o","s","o","f","t">>,
     <<"c","a","p","i","t","a","l"," ","o","n","e">>, <<"w","e","l","l","s"," ","f","a","r","g","o">>, <<"r","o","b","i","n","h","o","o","d">>, <<"d","o","o","r","d","a","s","h">>, <<"u","b","e","r">>, <<"l","y","f","t">>,
     <<"t","a","r","g","e","t">>, <<"w","a","l","m","a","r","t">>, <<"n","i","s","s","a","n">>, <<"t","o","y","o","t","a">>, <<"f","o","r","d">>, <<"h","y","u","n","d","a","i">>, <<"k","i","a">>,
     <<"k","a","i","s","e","r">>, <<"t","h","e","r","a","n","o","s">>, <<"p","e","l","o","t","o","n">>}

infer_category(name) ==
    With(lower(name), LAMBDA n :
        IF contains(n, <<"d","a","t","a"," ","b","r","e","a","c","h">>) \/ contains(n, <<"d","a","t","a"," ","p","r","i","v","a","c","y">>) \/ contains(n, <<"p","r","i","v","a","c","y">>) THEN "Privacy"
        ELSE IF \E x \in {<<"m","o","r","t","g","a","g","e">>, <<"c","r","e","d","i","t">>, <<"b","a","n","k">>, <<"i","n","s","u","r","a","n","c","e">>, <<"4","0","1","(","k",")">>, <<"i","n","v","e","s","t","m","e","n","t">>, <<"r","o","b","i","n","h","o","o","d">>, <<"o","r","d","e","r"," ","f","l","o","w">>} : contains(n, x)
        THEN "Finance"
        ELSE "Consumer")

infer_case_type(name) ==
    With(lower(name), LAMBDA n :
        IF contains(n, <<"d","a","t","a"," ","b","r","e","a","c","h">>) THEN Some("Data Breach")
        ELSE IF contains(n, <<"f","t","c">>) \/ contains(n, <<"f","t","c"," ","c","a","s","e">>) THEN Some("FTC Case")
        ELSE IF contains(n, <<"a","n","t","i","t","r","u","s","t">>) THEN Some("Antitrust")
        ELSE IF contains(n, <<"p","r","i","v","a","c","y">>) THEN Some("Data Privacy")
        ELSE None)

is_major_brand(name) ==
    lower(company_from_name(name)) \in MAJOR_BRANDS \/ \E b \in MAJOR_BRANDS : contains(lower(name), b)

\* uuid.uuid5(namespace, name): the name-based identifier, kept as its arguments
uuid5(namespace, name) == [namespace |-> namespace, name |-> name]

stable_id_of_name(name, slug) == uuid5("NAMESPACE_DNS", <<"c","l","a","s","s","a","c","t","i","o","n",".","o","r","g","/">> \o name)
stable_id(name, slug) == uuid5("NAMESPACE_DNS", <<"c","l","a","s","s","a","c","t","i","o","n",".","o","r","g","/">> \o slug)

\* _row_from_parsed: parsed is what _parse_card_text returned, utcnow the clock
row_from_parsed(name, slug, claim_url, parsed, utcnow) ==
    [id |-> stable_id(name, slug),
     source_id |-> slug,
     name |-> name,
     company_name |-> company_from_name(name),
     payout_min |-> parsed.payout_min,
     payout_max |-> parsed.payout_max,
     deadline |-> parsed.deadline_str,
     days_left |-> parsed.days_left,
     description |-> parsed.eligibility,
     requires_proof |-> parsed.requires_proof,
     claim_url |-> claim_url,
     source_url |-> <<"h","t","t","p","s",":","/","/","w","w","w",".","c","l","a","s","s","a","c","t","i","o","n",".","o","r","g","/","s","e","t","t","l","e","m","e","n","t","s">>,
     is_featured |-> None,
     logo_url |-> None,
     created_at |-> utcnow,
     updated_at |-> utcnow,
     case_type |-> infer_case_type(name),
     payout_display |-> parsed.payout_display,
     about_text |-> parsed.eligibility,
     eligibility |-> parsed.eligibility,
     category |-> infer_category(name),
     is_major_brand |-> is_major_brand(name)]

----------------------------------------------------------------------------
(* scrape_settlements on a parsed document.  A document is its data-name    *)
(* elements (titles) and its h2/h3 elements (headings), each in document     *)
(* order.  A title is its data-name, its data-slug (None when absent) and    *)
(* its ancestors; a heading is its links and the text that follows it.       *)

MinRows == 10

\* the date of the run and what _parse_card_text reads in the sample card texts
RunDay == toordinal(Date(2026, 2, 10))
SampleTexts ==
    <<<<"P","a","y","o","u","t"," ","$","1","0","0"," ","-"," ","$","2",",","5","0","0"," ","D","e","a","d","l","i","n","e"," ","2","/","1","7","/","2","6"," ","P","r","o","o","f"," ","R","e","q","u","i","r","e","d","?"," ","N","o">>,
      <<"P","a","y","o","u","t"," ","U","p"," ","t","o"," ","$","2","5","0"," ","D","e","a","d","l","i","n","e"," ","3","/","1","/","2","6"," ","P","r","o","o","f"," ","R","e","q","u","i","r","e","d","?"," ","Y","e","s">>>>
ParsedSample == [k \in DOMAIN SampleTexts |-> parse_card_text(SampleTexts[k], RunDay)]

with_suffix(name) == IF contains(name, <<"S","e","t","t","l","e","m","e","n","t">>) THEN name ELSE name \o <<" ","C","l","a","s","s"," ","A","c","t","i","o","n"," ","S","e","t","t","l","e","m","e","n","t">>

\* lines 229-230
data_name_of(el) == strip(el.data_name)
data_slug_of(el) ==
    lower(strip(IF el.data_slug # None /\ el.data_slug[1] # <<>> THEN el.data_slug[1] ELSE slug_from_name(data_name_of(el))))

\* lines 229-262 for one element with data-name: its name, its slug, the index of
\* its card among its ancestors (0 without one) and the row the card gives
title_values(el, utcnow) ==
    With(find_card(el.ancestors), LAMBDA card :
        [data_name |-> data_name_of(el),
         data_slug |-> data_slug_of(el),
         card |-> card,
         row |-> IF card = 0 THEN None
                 ELSE Some(row_from_parsed(with_suffix(data_name_of(el)), data_slug_of(el),
                                           claim_url_of(el.ancestors[card].links)[1],
                                           ParsedSample[el.ancestors[card].fields], utcnow))])

\* lines 271-276: a link of a heading that can be a title
anchor_name(a) == strip(a.text)
valid_anchor(a) ==
    /\ startswith(strip(a.href), <<"h","t","t","p">>) /\ ~contains(strip(a.href), <<"c","l","a","s","s","a","c","t","i","o","n",".","o","r","g">>)
    /\ anchor_name(a) # <<>> /\ ~(Len(anchor_name(a)) < 5)

\* lines 270-304 for the links of one h2/h3: whether each can be a title, its slug
\* and the row it gives with the text that follows the heading
heading_values(tag, utcnow) ==
    [i \in DOMAIN tag.anchors |->
        [valid |-> valid_anchor(tag.anchors[i]),
         slug |-> slug_from_name(anchor_name(tag.anchors[i])),
         row |-> row_from_parsed(with_suffix(anchor_name(tag.anchors[i])), slug_from_name(anchor_name(tag.anchors[i])),
                                 strip(tag.anchors[i].href), ParsedSample[tag.block], utcnow)]]

\* The documents checked.
NoCard == <<Ancestor(49, FALSE, 1, 1)>>
CardA == <<Ancestor(49, FALSE, 0, 1), Ancestor(300, TRUE, 3, 1)>>
CardB == <<Ancestor(140, FALSE, 3, 2)>>
TitleChains == {NoCard, CardA, CardB}
Title(n, s, c) == [data_name |-> n, data_slug |-> s, ancestors |-> c]
Titles ==
    {Title(<<"A","c","m","e"," ","C","o">>, None, CardA),
     Title(<<"A","c","m","e"," ","C","o">>, None, CardB),
     Title(<<" ","A","c","m","e"," ","C","o"," ">>, Some(<<>>), NoCard),
     Title(<<"A","C","M","E"," "," ","C","o"," ","C","l","a","s","s"," ","A","c","t","i","o","n"," ","S","e","t","t","l","e","m","e","n","t">>, None, CardB),
     Title(<<"B","&","B"," ","-"," ","D","a","t","a"," ","B","r","e","a","c","h">>, None, CardA),
     Title(<<"B","&","B"," ","-"," ","D","a","t","a"," ","B","r","e","a","c","h">>, Some(<<" ","A","c","m","e","-","C","o"," ">>), CardA),
     Title(<<>>, Some(<<"a","c","m","e","-","c","o">>), CardA),
     Title(<<"?","!","?","!","?">>, None, CardA)}

Anchor(h, t) == [href |-> h, text |-> t]
Heading(as, b) == [anchors |-> as, block |-> b]
Headings ==
    {Heading(<<Anchor(<<"h","t","t","p","s",":","/","/","a","c","m","e",".","c","o","m","/","c","l","a","i","m">>, <<"A","c","m","e"," ","C","o">>)>>, 1),
     Heading(<<Anchor(<<"h","t","t","p","s",":","/","/","w","w","w",".","c","l","a","s","s","a","c","t","i","o","n",".","o","r","g","/","x">>, <<"B","&","B"," ","-"," ","D","a","t","a"," ","B","r","e","a","c","h">>), Anchor(<<" ","h","t","t","p","s",":","/","/","a","c","m","e",".","o","r","g","/","f","i","l","e"," ">>, <<" ","a","c","m","e"," ","c","o"," ">>)>>, 2),
     Heading(<<Anchor(<<"h","t","t","p","s",":","/","/","b","b",".","c","o","m","/">>, <<"B","&","B"," ","-"," ","D","a","t","a"," ","B","r","e","a","c","h">>), Anchor(<<"h","t","t","p","s",":","/","/","a","c","m","e",".","c","o","m","/","c","l","a","i","m">>, <<"A","c","m","e"," ","C","o">>)>>, 2),
     Heading(<<Anchor(<<"h","t","t","p","s",":","/","/","a","c","m","e",".","c","o","m","/","c","l","a","i","m">>, <<"A","c","m","e">>), Anchor(<<"h","t","t","p","s",":","/","/","a","c","m","e",".","c","o","m","/","c","l","a","i","m">>, <<"A","c","m","e"," ","C","o">>), Anchor(<<"h","t","t","p","s",":","/","/","b","b",".","c","o","m","/">>, <<"B","&","B"," ","-"," ","D","a","t","a"," ","B","r","e","a","c","h">>)>>, 1),
     Heading(<<Anchor(<<"/","s","e","t","t","l","e","m","e","n","t","s">>, <<"A","l","l"," ","s","e","t","t","l","e","m","e","n","t","s">>)>>, 1)}

MaxRuns == 2
Clock == 1..MaxRuns
MaxTitles == 2
MaxHeadings == 2
RECURSIVE SeqsUpTo(_, _)
SeqsUpTo(S, n) ==
    IF n = 0 THEN {<<>>}
    ELSE With(SeqsUpTo(S, n - 1), LAMBDA shorter :
             shorter \cup {Append(q, x) : q \in {y \in shorter : Len(y) = n - 1}, x \in S})

\* documents with MinRows - 1 or MinRows cards of their own slugs, for the
\* threshold of strategy 2
ManyTitles(n) == [i \in 1..n |-> Title(<<"A","c","m","e"," ","C","o">>, Some(<<"s", DigitOf(i - 1)>>), CardA)]
AllTitles == Titles \cup {ManyTitles(MinRows)[i] : i \in 1..MinRows}
ShortDocs == {[titles |-> t, headings |-> h] : t \in SeqsUpTo(Titles, MaxTitles), h \in SeqsUpTo(Headings, MaxHeadings)}
LongDocs == {[titles |-> ManyTitles(n), headings |-> h] : n \in {MinRows - 1, MinRows}, h \in SeqsUpTo(Headings, 1)}
Docs == ShortDocs \cup LongDocs

\* The values above for the titles and headings checked, computed once.
TitleValues == [el \in AllTitles, t \in Clock |-> title_values(el, t)]
HeadingValues == [tag \in Headings, t \in Clock |-> heading_values(tag, t)]

\* seen_slugs never holds a slug twice: the test of lines 231 and 278
never_seen(slug, acc) == FALSE
seen(slug, acc) == slug \in acc.seen_slugs

add_row(acc, row) == [rows |-> Append(acc.rows, row), seen_slugs |-> acc.seen_slugs \cup {row.source_id}]

\* lines 228-265: one element with data-name
title_step(el, acc, utcnow) ==
    With(TitleValues[el, utcnow], LAMBDA v :
        IF v.data_name = <<>> \/ v.data_slug = <<>> \/ seen(v.data_slug, acc) THEN acc
        ELSE IF v.card = 0 THEN acc
        ELSE add_row(acc, v.row[1]))

RECURSIVE strategy1(_, _, _)
strategy1(titles, acc, utcnow) ==
    IF titles = <<>> THEN acc ELSE strategy1(Tail(titles), title_step(Head(titles), acc, utcnow), utcnow)

\* lines 269-307: one h2/h3: the first valid link whose slug is new gives the row
heading_step(tag, acc, utcnow) ==
    With(HeadingValues[tag, utcnow], LAMBDA v : With({i \in DOMAIN v : v[i].valid /\ ~seen(v[i].slug, acc)}, LAMBDA hits :
        IF hits = {} THEN acc ELSE add_row(acc, v[Least(hits)].row)))

RECURSIVE strategy2(_, _, _)
strategy2(headings, acc, utcnow) ==
    IF headings = <<>> THEN acc ELSE strategy2(Tail(headings), heading_step(Head(headings), acc, utcnow), utcnow)

\* lines 224-309
scrape_rows(d, utcnow) ==
    With(strategy1(d.titles, [rows |-> <<>>, seen_slugs |-> {}], utcnow), LAMBDA first :
        IF Len(first.rows) < MinRows THEN strategy2(d.headings, first, utcnow).rows ELSE first.rows)

ScrapeInit ==
    /\ phase = "parsed" /\ doc \in Docs /\ now = 1 /\ rows = <<>>
    /\ env = NoEnv /\ response = None /\ store = {} /\ before = {} /\ fetches = 0 /\ clients = 0 /\ upserts = 0
    /\ result = None /\ NoParse /\ NoLocate /\ NoAppend

Scrape ==
    /\ phase = "parsed"
    /\ rows' = scrape_rows(doc, now)
    /\ phase' = "scraped"
    /\ UNCHANGED <<parseVars, result, chain, env, response, doc, store, before, now, fetches, clients, upserts, appendVars>>

ScrapeNext == Scrape

SpecScrape == ScrapeInit /\ [][ScrapeNext]_vars

\* a title that gives a row when its slug is new, and a heading link likewise
TitleSlug(k) == TitleValues[doc.titles[k], now].data_slug
EligibleTitle(el) ==
    /\ strip(el.data_name) # <<>> /\ TitleValues[el, now].data_slug # <<>>
    /\ \E i \in DOMAIN el.ancestors : i <= 8 /\ Qualifies50(el.ancestors[i])
EligibleTitles(s) == {k \in DOMAIN doc.titles : EligibleTitle(doc.titles[k]) /\ TitleSlug(k) = s}
RowOfTitle(k) == TitleValues[doc.titles[k], now].row[1]
ValidAnchors(h) == {i \in DOMAIN doc.headings[h].anchors : HeadingValues[doc.headings[h], now][i].valid}
AnchorSlug(h, i) == HeadingValues[doc.headings[h], now][i].slug
RowOfAnchor(h, i) == HeadingValues[doc.headings[h], now][i].row
FallbackRan == Cardinality({s \in {TitleSlug(k) : k \in DOMAIN doc.titles} : EligibleTitles(s) # {}}) < 10

\* C1: no two rows share a source_id, over both strategies; the row of a slug is
\* the row of the first title of that slug that gives a row, the data-name
\* titles before the heading links.
C1_UniqueFirstWins ==
    phase = "scraped" =>
        /\ \A i, j \in DOMAIN rows : rows[i].source_id = rows[j].source_id => i = j
        /\ \A k \in DOMAIN doc.titles :
               EligibleTitle(doc.titles[k]) =>
                   \E i \in DOMAIN rows : rows[i] = RowOfTitle(Least(EligibleTitles(TitleSlug(k))))
        /\ \A h \in DOMAIN doc.headings :
               (FallbackRan /\ ValidAnchors(h) # {}) =>
                   LET s == AnchorSlug(h, Least(ValidAnchors(h)))
                   IN  \E i \in DOMAIN rows :
                           /\ rows[i].source_id = s
                           /\ \/ EligibleTitles(s) # {}
                              \/ \E g \in 1..h : \E a \in ValidAnchors(g) : rows[i] = RowOfAnchor(g, a)
        /\ \A i \in DOMAIN rows :
               \/ \E k \in DOMAIN doc.titles : EligibleTitle(doc.titles[k]) /\ rows[i] = RowOfTitle(k)
               \/ FallbackRan /\ \E h \in DOMAIN doc.headings : \E a \in ValidAnchors(h) : rows[i] = RowOfAnchor(h, a)

\* two titles and a heading link of one slug, each with a row of its own, and
\* the one row kept
C1_Witness ==
    /\ phase = "scraped"
    /\ Len(doc.titles) = 2 /\ Len(doc.headings) >= 1
    /\ EligibleTitle(doc.titles[1]) /\ EligibleTitle(doc.titles[2])
    /\ TitleSlug(1) = TitleSlug(2)
    /\ RowOfTitle(1) # RowOfTitle(2)
    /\ ValidAnchors(1) # {} /\ AnchorSlug(1, Least(ValidAnchors(1))) = TitleSlug(1)
    /\ Cardinality({i \in DOMAIN rows : rows[i].source_id = TitleSlug(1)}) = 1

\* with MinRows rows from strategy 1 the headings are not read
FallbackThreshold == phase = "scraped" /\ Len(doc.titles) = MinRows => Len(rows) = MinRows

----------------------------------------------------------------------------
(* main: the environment check, the fetch, the scrape, the client and the    *)
(* upsert, run after run against one settlements table.                      *)

\* "not value" of an environment variable: unset or empty
falsy(v) == IF v = None THEN TRUE ELSE v[1] = <<>>
env_missing_url_only(e) == falsy(e.SUPABASE_URL)
env_missing(e) == falsy(e.SUPABASE_URL) \/ falsy(e.SUPABASE_SERVICE_KEY)

\* resp.raise_for_status(): HTTPError for the statuses 400 to 599
raises_never(status_code) == FALSE
raises_for_status(status_code) == 400 <= status_code /\ status_code < 600

\* table("settlements").insert(rows): no conflict resolution
insert_rows(table, batch) == table \cup {batch[i] : i \in DOMAIN batch}

\* table("settlements").upsert(rows, on_conflict="source_id"): a row of the batch
\* replaces the stored row of its source_id
upsert_rows(table, batch) ==
    {r \in table : \A i \in DOMAIN batch : batch[i].source_id # r.source_id} \cup {batch[i] : i \in DOMAIN batch}

EnvValues == {None, Some(<<>>), Some(<<"x">>)}
Envs == [SUPABASE_URL : EnvValues, SUPABASE_SERVICE_KEY : EnvValues]
Statuses == {200, 300, 404, 503}

\* the documents the listing page serves from run to run
RunDocs ==
    {NoDoc,
     [titles |-> <<Title(<<"A","c","m","e"," ","C","o">>, None, CardA)>>, headings |-> <<>>],
     [titles |-> <<Title(<<"A","c","m","e"," ","C","o">>, None, CardB)>>, headings |-> <<>>],
     [titles |-> <<Title(<<"A","C","M","E"," "," ","C","o"," ","C","l","a","s","s"," ","A","c","t","i","o","n"," ","S","e","t","t","l","e","m","e","n","t">>, None, CardB), Title(<<"B","&","B"," ","-"," ","D","a","t","a"," ","B","r","e","a","c","h">>, None, CardA)>>, headings |-> <<>>],
     [titles |-> <<>>,
      headings |-> <<Heading(<<Anchor(<<"h","t","t","p","s",":","/","/","w","w","w",".","c","l","a","s","s","a","c","t","i","o","n",".","o","r","g","/","x">>, <<"B","&","B"," ","-"," ","D","a","t","a"," ","B","r","e","a","c","h">>), Anchor(<<" ","h","t","t","p","s",":","/","/","a","c","m","e",".","o","r","g","/","f","i","l","e"," ">>, <<" ","a","c","m","e"," ","c","o"," ">>)>>, 2)>>],
     [titles |-> <<Title(<<" ","A","c","m","e"," ","C","o"," ">>, Some(<<>>), NoCard)>>,
      headings |-> <<Heading(<<Anchor(<<"h","t","t","p","s",":","/","/","b","b",".","c","o","m","/">>, <<"B","&","B"," ","-"," ","D","a","t","a"," ","B","r","e","a","c","h">>), Anchor(<<"h","t","t","p","s",":","/","/","a","c","m","e",".","c","o","m","/","c","l","a","i","m">>, <<"A","c","m","e"," ","C","o">>)>>, 2)>>]}

Init ==
    /\ phase = "start" /\ env \in Envs /\ now = 1
    /\ response = None /\ doc = NoDoc /\ rows = <<>> /\ store = {} /\ before = {}
    /\ fetches = 0 /\ clients = 0 /\ upserts = 0
    /\ result = None /\ NoParse /\ NoLocate /\ NoAppend

idle == <<parseVars, result, chain, appendVars>>

\* lines 313-316
MissingEnv ==
    /\ phase = "start" /\ env_missing(env)
    /\ phase' = "fatal"
    /\ UNCHANGED <<idle, env, response, doc, rows, store, before, now, fetches, clients, upserts>>

\* line 219 raising: no response
FetchRaises ==
    /\ phase = "start" /\ ~env_missing(env)
    /\ fetches' = fetches + 1
    /\ response' = None
    /\ phase' = "aborted"
    /\ UNCHANGED <<idle, env, doc, rows, store, before, now, clients, upserts>>

\* lines 219-220: a response that raise_for_status refuses
FetchRefused ==
    /\ phase = "start" /\ ~env_missing(env)
    /\ \E status_code \in Statuses :
           /\ raises_for_status(status_code)
           /\ response' = Some(status_code)
    /\ fetches' = fetches + 1
    /\ phase' = "aborted"
    /\ UNCHANGED <<idle, env, doc, rows, store, before, now, clients, upserts>>

\* lines 219-309 and 319: a response that is parsed and scraped
FetchAndScrape ==
    /\ phase = "start" /\ ~env_missing(env)
    /\ \E status_code \in Statuses, body \in RunDocs :
           /\ ~raises_for_status(status_code)
           /\ response' = Some(status_code)
           /\ doc' = body
           /\ rows' = scrape_rows(body, now)
    /\ fetches' = fetches + 1
    /\ phase' = "scraped"
    /\ UNCHANGED <<idle, env, store, before, now, clients, upserts>>

\* lines 322-324
NoRows ==
    /\ phase = "scraped" /\ rows = <<>>
    /\ phase' = "done"
    /\ UNCHANGED <<idle, env, response, doc, rows, store, before, now, fetches, clients, upserts>>

\* line 326
CreateClient ==
    /\ phase = "scraped" /\ rows # <<>>
    /\ clients' = clients + 1
    /\ phase' = "client"
    /\ UNCHANGED <<idle, env, response, doc, rows, store, before, now, fetches, upserts>>

\* line 328: the upsert executed by the store
Upsert ==
    /\ phase = "client"
    /\ upserts' = upserts + 1
    /\ store' = upsert_rows(store, rows)
    /\ phase' = "done"
    /\ UNCHANGED <<idle, env, response, doc, rows, before, now, fetches, clients>>

\* line 328 raising: the store refuses the request and keeps its rows
UpsertRaises ==
    /\ phase = "client"
    /\ upserts' = upserts + 1
    /\ phase' = "aborted"
    /\ UNCHANGED <<idle, env, response, doc, rows, store, before, now, fetches, clients>>

\* the process has ended; the next run starts from the store it left
NextRun ==
    /\ phase \in {"fatal", "aborted", "done"} /\ now < MaxRuns
    /\ phase' = "start" /\ env' \in Envs /\ now' = now + 1
    /\ response' = None /\ doc' = NoDoc /\ rows' = <<>> /\ before' = store
    /\ fetches' = 0 /\ clients' = 0 /\ upserts' = 0
    /\ UNCHANGED <<idle, store>>

Next ==
    \/ MissingEnv
    \/ FetchRaises
    \/ FetchRefused
    \/ FetchAndScrape
    \/ NoRows
    \/ CreateClient
    \/ Upsert
    \/ UpsertRaises
    \/ NextRun

Spec == Init /\ [][Next]_vars

Assembled == store \cup before \cup {rows[i] : i \in DOMAIN rows}

\* C2: the id is a function of the source_id alone: two rows of one source_id,
\* of one run or of two, whatever their name, card, claim URL or time, have one id.
C2_IdOfSourceId == \A r1, r2 \in Assembled : r1.source_id = r2.source_id => r1.id = r2.id

C2_Witness ==
    \E r1, r2 \in Assembled :
        /\ r1.source_id = r2.source_id /\ r1.id = r2.id
        /\ r1.name # r2.name /\ r1.claim_url # r2.claim_url
        /\ r1.payout_min # r2.payout_min /\ r1.created_at # r2.created_at

\* C3: the store holds at most one row per source_id, and after a run's upsert
\* the row stored for each source_id of the run is the run's own row, with its
\* payout: the stored row is updated, not duplicated.
C3_UpsertConverges ==
    /\ \A r1, r2 \in store : r1.source_id = r2.source_id => r1 = r2
    /\ (phase = "done" /\ upserts = 1) =>
           \A i \in DOMAIN rows : \A r \in store : r.source_id = rows[i].source_id => r = rows[i]
    /\ (phase = "done" /\ upserts = 1) => \A i \in DOMAIN rows : rows[i] \in store

C3_Witness ==
    /\ phase = "done" /\ upserts = 1 /\ now = 2
    /\ \E i \in DOMAIN rows : \E b \in before :
           /\ b.source_id = rows[i].source_id
           /\ b.payout_min # rows[i].payout_min
           /\ rows[i] \in store /\ b \notin store

Unset(v) == v \in {None, Some(<<>>)}

\* C4: with SUPABASE_URL or SUPABASE_SERVICE_KEY missing or empty the run ends
\* in the fatal error before any network activity: no fetch is issued, no client
\* is created and nothing is written.
C4_FatalBeforeNetwork ==
    (Unset(env.SUPABASE_URL) \/ Unset(env.SUPABASE_SERVICE_KEY)) =>
        /\ phase \in {"start", "fatal"}
        /\ fetches = 0 /\ clients = 0 /\ upserts = 0 /\ store = before

C4_Witness ==
    /\ phase = "fatal" /\ now = 2 /\ store # {}
    /\ env.SUPABASE_URL = Some(<<"x">>) /\ env.SUPABASE_SERVICE_KEY = Some(<<>>)

Succeeded == response # None /\ response[1] \in 200..299
Failed == response = None \/ response[1] \in 400..599

\* C5: the upsert is attempted at most once in a run, and only after a fetch
\* that returned a success status and with at least one row; a failed fetch
\* aborts with no write, and no rows ends the run with no write.
C5_WriteAfterSuccess ==
    /\ upserts <= 1
    /\ upserts = 1 => (Succeeded /\ rows # <<>>)
    /\ (fetches = 1 /\ Failed) => (phase = "aborted" /\ clients = 0 /\ upserts = 0 /\ store = before)
    /\ (phase = "done" /\ rows = <<>>) => (clients = 0 /\ upserts = 0 /\ store = before)

\* C5 as amended: the fetch is one that did not raise: any status outside 400 to
\* 599, a success or not.
C5_WriteAfterNoError ==
    /\ upserts <= 1
    /\ upserts = 1 => (fetches = 1 /\ ~Failed /\ rows # <<>>)
    /\ (fetches = 1 /\ Failed) => (phase = "aborted" /\ clients = 0 /\ upserts = 0 /\ store = before)
    /\ (phase = "done" /\ rows = <<>>) => (clients = 0 /\ upserts = 0 /\ store = before)

C5_Witness ==
    /\ phase = "done" /\ upserts = 1 /\ fetches = 1
    /\ response = Some(300) /\ rows # <<>> /\ store # before

----------------------------------------------------------------------------
(* The append-only-new reconciliation: the scraped rows are compared with    *)
(* the records already stored and only the new ones are inserted.            *)

\* a comparison key: lowercased, punctuation stripped, whitespace collapsed
KeyChar(c) == IsAlnum(c) \/ IsSpace(c)
normalize(s) == strip(collapse_spaces(SelectSeq(lower(s), KeyChar)))

\* a URL key: lowercased, the trailing slashes stripped
rstrip_slash(s) ==
    IF \A i \in DOMAIN s : s[i] = "/" THEN <<>>
    ELSE SubSeq(s, 1, CHOOSE i \in DOMAIN s : s[i] # "/" /\ \A j \in (i + 1)..Len(s) : s[j] = "/")
normalize_url(u) == rstrip_slash(lower(strip(u)))

\* the keys of the records read from the store
text_keys(records) == {normalize(e.name) : e \in records} \cup {normalize(e.company_name) : e \in records}
url_keys(records) == {normalize_url(e.claim_url) : e \in records}

\* a new row is skipped when its name, its company or its URL is a key
is_known_by_name_or_url(row, records) ==
    \/ normalize(row.name) \in text_keys(records)
    \/ normalize_url(row.claim_url) \in url_keys(records)
is_known(row, records) ==
    \/ normalize(row.name) \in text_keys(records)
    \/ normalize(row.company_name) \in text_keys(records)
    \/ normalize_url(row.claim_url) \in url_keys(records)

\* the store's bulk insert of the queued rows
bulk_insert(table, batch) == table \cup {batch[i] : i \in DOMAIN batch}

new_rows(batch, records) == SelectSeq(batch, LAMBDA row : ~is_known(row, records))

\* The stores and the scraped batches checked.
StoredRows ==
    {row_from_parsed(<<"A","c","m","e"," ","C","o","r","p"," ","P","r","i","v","a","c","y"," ","S","e","t","t","l","e","m","e","n","t">>, <<"a","c","m","e","-","c","o","r","p","-","p","r","i","v","a","c","y","-","s","e","t","t","l","e","m","e","n","t">>, <<"h","t","t","p","s",":","/","/","o","l","d",".","a","c","m","e",".","c","o","m","/","c","l","a","i","m">>, ParsedSample[1], 0),
     row_from_parsed(<<"A","c","m","e"," ","C","o","r","p"," ","-"," ","F","e","e","s">>, <<"a","c","m","e","-","c","o","r","p","-","f","e","e","s">>, <<"h","t","t","p","s",":","/","/","a","c","m","e",".","c","o","m","/","f","e","e","s">>, ParsedSample[1], 0),
     row_from_parsed(<<"G","a","m","m","a"," ","B","a","n","k">>, <<"g","a","m","m","a","-","b","a","n","k">>, <<"H","T","T","P","S",":","/","/","B","e","t","a",".","c","o","m","/","f","i","l","e","/">>, ParsedSample[2], 0)}
ScrapedRows ==
    {row_from_parsed(<<"A","C","M","E",","," ","C","o","r","p","."," ","-"," ","D","a","t","a"," ","B","r","e","a","c","h"," ","S","e","t","t","l","e","m","e","n","t">>, <<"a","c","m","e","-","c","o","r","p","-","d","a","t","a","-","b","r","e","a","c","h">>, <<"h","t","t","p","s",":","/","/","a","c","m","e",".","c","o","m","/","b","r","e","a","c","h">>, ParsedSample[2], 1),
     row_from_parsed(<<"a","c","m","e"," ","c","o","r","p"," "," ","p","r","i","v","a","c","y"," ","s","e","t","t","l","e","m","e","n","t">>, <<"a","c","m","e","-","c","o","r","p","-","p","r","i","v","a","c","y">>, <<"h","t","t","p","s",":","/","/","a","c","m","e",".","c","o","m","/","p","r","i","v","a","c","y">>, ParsedSample[2], 1),
     row_from_parsed(<<"B","e","t","a"," ","I","n","c"," ","S","e","t","t","l","e","m","e","n","t">>, <<"b","e","t","a","-","i","n","c">>, <<"h","t","t","p","s",":","/","/","b","e","t","a",".","c","o","m","/","f","i","l","e">>, ParsedSample[1], 1),
     row_from_parsed(<<"D","e","l","t","a"," ","A","i","r"," ","S","e","t","t","l","e","m","e","n","t">>, <<"d","e","l","t","a","-","a","i","r">>, <<"h","t","t","p","s",":","/","/","d","e","l","t","a",".","c","o","m","/","c","l","a","i","m">>, ParsedSample[1], 1)}
MaxStored == 2
MaxBatch == 2
Stores == {S \in SUBSET StoredRows : Cardinality(S) <= MaxStored}
Batches == SeqsUpTo(ScrapedRows, MaxBatch)

AppendInit ==
    /\ phase = "scraped" /\ store \in Stores /\ before = store /\ rows \in Batches /\ now = 1
    /\ existing = {} /\ to_insert = <<>>
    /\ env = NoEnv /\ response = None /\ doc = NoDoc /\ fetches = 0 /\ clients = 0 /\ upserts = 0
    /\ result = None /\ NoParse /\ NoLocate

appendIdle == <<parseVars, result, chain, env, response, doc, rows, before, now, fetches, clients, upserts>>

\* the read of name, company_name and claim_url of the stored records
ReadExisting ==
    /\ phase = "scraped"
    /\ existing' = {[name |-> r.name, company_name |-> r.company_name, claim_url |-> r.claim_url] : r \in store}
    /\ phase' = "read"
    /\ UNCHANGED <<appendIdle, store, to_insert>>

Reconcile ==
    /\ phase = "read"
    /\ to_insert' = new_rows(rows, existing)
    /\ phase' = "reconciled"
    /\ UNCHANGED <<appendIdle, store, existing>>

\* the bulk insert of the new rows
InsertNew ==
    /\ phase = "reconciled" /\ to_insert # <<>>
    /\ store' = bulk_insert(store, to_insert)
    /\ phase' = "done"
    /\ UNCHANGED <<appendIdle, existing, to_insert>>

NothingNew ==
    /\ phase = "reconciled" /\ to_insert = <<>>
    /\ phase' = "done"
    /\ UNCHANGED <<appendIdle, store, existing, to_insert>>

AppendNext ==
    \/ ReadExisting
    \/ Reconcile
    \/ InsertNew
    \/ NothingNew

SpecAppend == AppendInit /\ [][AppendNext]_vars

SameKey(a, b) == normalize(a) = normalize(b)
Matches(r, e) ==
    \/ SameKey(r.name, e.name)
    \/ SameKey(r.company_name, e.company_name)
    \/ normalize_url(r.claim_url) = normalize_url(e.claim_url)

\* C9: a new row whose normalized name, company_name or claim URL matches a
\* stored record is left out of the insert batch whatever its other fields, and
\* no stored record is modified by the run.
C9_AppendOnlyNew ==
    /\ before \subseteq store
    /\ phase \in {"reconciled", "done"} =>
           \A i \in DOMAIN rows : (\E e \in before : Matches(rows[i], e)) =>
               (\A j \in DOMAIN to_insert : to_insert[j] # rows[i]) /\ rows[i] \notin store
    /\ \A r \in store \ before : \E j \in DOMAIN to_insert : to_insert[j] = r

\* "Acme Corp" is stored; the new row of company "ACME, Corp.", of another name
\* and another URL, is left out while another row is inserted
C9_Witness ==
    /\ phase = "done" /\ store # before
    /\ \E e \in before : e.company_name = <<"A","c","m","e"," ","C","o","r","p">>
    /\ \E i \in DOMAIN rows :
           /\ rows[i].company_name = <<"A","C","M","E",","," ","C","o","r","p",".">>
           /\ \A e \in before : ~SameKey(rows[i].name, e.name) /\ normalize_url(rows[i].claim_url) # normalize_url(e.claim_url)
           /\ rows[i] \notin store
====
